---------------------------- MODULE Spec2Model ----------------------------
(***************************************************************************)
(* Model of LogXML2Chunks (src/LogXML2Chunks/LogXML2Chunks.py): the text   *)
(* section extractors, the chunk reader with its index and checksum, the   *)
(* filename prefix resolver and the document splitter.                     *)
(*                                                                         *)
(* Python strings are sequences of one-character strings.  Python's None   *)
(* is the one-element sequence None, which no character sequence equals.   *)
(***************************************************************************)
EXTENDS Naturals, Integers, Sequences, FiniteSets, TLC

VARIABLES
    filename_prefix_pattern, \* self.filename_prefix_pattern: None or the compiled pattern
    report,       \* the root element of the aggregated report at output_xml_path
    rebot_installed, \* whether the rebot command is on the path
    storage,      \* output_dir: the standalone documents, <<file name, root element>>
    logs,         \* output_dir: the file names of the rendered reports
    test_cases,   \* split_to_chunks: the (suite, test) pairs
    idx,          \* split_to_chunks: the index of the pair being processed
    prefix,       \* split_to_chunks: the prefix of the pair being processed
    rendered,     \* the documents rebot was run on, in order
    doc_text,     \* argument of the text extractors
    ret,          \* value returned by the last call
    folder,       \* the folder at folder_path as get_data_from_chunks last found it
    pc            \* position of the running call

vars == <<filename_prefix_pattern, report, rebot_installed, storage, logs,
          test_cases, idx, prefix, rendered, doc_text, ret, folder, pc>>

None == <<"None">>

\* a folder_path: whether it exists, whether it is a directory, the files in it
Folder(exists, is_dir, files) == [exists |-> exists, is_dir |-> is_dir, files |-> files]
NoFolder == Folder(FALSE, FALSE, {})

(***************************************************************************)
(* Bounds of the model.                                                    *)
(***************************************************************************)
MaxItems == 3
MaxTests == 2
MaxForeign == 1

(***************************************************************************)
(* Characters and the str methods the code uses.                           *)
(***************************************************************************)
LowerAlpha == <<"a","b","c","d","e","f","g","h","i","j","k","l","m",
                "n","o","p","q","r","s","t","u","v","w","x","y","z">>
UpperAlpha == <<"A","B","C","D","E","F","G","H","I","J","K","L","M",
                "N","O","P","Q","R","S","T","U","V","W","X","Y","Z">>
Digits == {"0","1","2","3","4","5","6","7","8","9"}

IsSpace(c) == c \in {" ", "\n", "\t"}
IsDigit(c) == c \in Digits
IsWord(c) ==
    \/ c \in Digits
    \/ c = "_"
    \/ \E i \in 1..26 : c = LowerAlpha[i] \/ c = UpperAlpha[i]

LowerChar(c) ==
    IF \E i \in 1..26 : c = UpperAlpha[i]
    THEN LowerAlpha[CHOOSE i \in 1..26 : c = UpperAlpha[i]]
    ELSE c
UpperChar(c) ==
    IF \E i \in 1..26 : c = LowerAlpha[i]
    THEN UpperAlpha[CHOOSE i \in 1..26 : c = LowerAlpha[i]]
    ELSE c

\* str.lower() / str.upper()
Lower(s) == [i \in 1..Len(s) |-> LowerChar(s[i])]
Upper(s) == [i \in 1..Len(s) |-> UpperChar(s[i])]

\* s[i:] with a 1-based i
From(s, i) == SubSeq(s, i, Len(s))

\* s.startswith(p), s.endswith(p), c in s
StartsWith(s, p) == Len(p) <= Len(s) /\ SubSeq(s, 1, Len(p)) = p
EndsWith(s, p) == Len(p) <= Len(s) /\ SubSeq(s, Len(s) - Len(p) + 1, Len(s)) = p
Contains(s, c) == \E i \in 1..Len(s) : s[i] = c

\* s.strip()
RECURSIVE LStrip(_)
LStrip(s) == IF s # <<>> /\ IsSpace(Head(s)) THEN LStrip(Tail(s)) ELSE s
RECURSIVE RStrip(_)
RStrip(s) ==
    IF s # <<>> /\ IsSpace(s[Len(s)]) THEN RStrip(SubSeq(s, 1, Len(s) - 1)) ELSE s
Strip(s) == RStrip(LStrip(s))

\* s.find(p): the 1-based position of the first occurrence, 0 when there is none
\* (Python: the 0-based position, -1 when there is none)
Find(s, p) ==
    LET hits == {i \in 1..(Len(s) + 1) : StartsWith(From(s, i), p)}
    IN  IF hits = {} THEN 0 ELSE CHOOSE i \in hits : \A j \in hits : i <= j

\* s.split(c): the pieces between the occurrences of the character c
RECURSIVE Split(_, _)
Split(s, c) ==
    LET i == Find(s, <<c>>)
    IN  IF i = 0 THEN <<s>> ELSE <<SubSeq(s, 1, i - 1)>> \o Split(From(s, i + 1), c)

\* the first position >= i of s that holds no character of the class
RECURSIVE SkipSpace(_, _)
SkipSpace(s, i) == IF i <= Len(s) /\ IsSpace(s[i]) THEN SkipSpace(s, i + 1) ELSE i
RECURSIVE SkipDigits(_, _)
SkipDigits(s, i) == IF i <= Len(s) /\ IsDigit(s[i]) THEN SkipDigits(s, i + 1) ELSE i
RECURSIVE SkipWord(_, _)
SkipWord(s, i) == IF i <= Len(s) /\ IsWord(s[i]) THEN SkipWord(s, i + 1) ELSE i

\* the optional character c at position i: the position after it
Opt(s, i, c) == IF i <= Len(s) /\ s[i] = c THEN i + 1 ELSE i

(***************************************************************************)
(* The section header patterns, searched with re.IGNORECASE.  Each         *)
(* operator gives the position after the match that starts at i, 0 when no *)
(* match starts there.                                                     *)
(***************************************************************************)
kwSteps == <<"s","t","e","p","s">>
kwRequirements == <<"r","e","q","u","i","r","e","m","e","n","t","s">>

\* the label, after an optional '*', matched without regard to case
LabelHere(s, j, label) ==
    /\ j + Len(label) - 1 <= Len(s)
    /\ \A k \in 1..Len(label) : LowerChar(s[j + k - 1]) = label[k]
LabelAt(s, i, label) ==
    LET j == IF i <= Len(s) /\ s[i] = "*" /\ LabelHere(s, i + 1, label)
             THEN i + 1 ELSE i
    IN  IF LabelHere(s, j, label) THEN j + Len(label) ELSE 0

\* (?:\s*/\s*\w+)? at position p
SlashLabel(s, p) ==
    LET q == SkipSpace(s, p)
        r == SkipSpace(s, q + 1)
    IN  IF q <= Len(s) /\ s[q] = "/" /\ r <= Len(s) /\ IsWord(s[r])
        THEN SkipWord(s, r) ELSE p

\* r'(?:\*)?Steps(?:\s*/\s*\w+)?(?:\*)?:?'
steps_pattern(s, i) ==
    LET p == LabelAt(s, i, kwSteps)
    IN  IF p = 0 THEN 0 ELSE Opt(s, Opt(s, SlashLabel(s, p), "*"), ":")

\* r'(?:\*)?Requirements(?:\*)?:?'
requirements_pattern(s, i) ==
    LET p == LabelAt(s, i, kwRequirements)
    IN  IF p = 0 THEN 0 ELSE Opt(s, Opt(s, p, "*"), ":")

\* re.search: the end of the leftmost match (match.end(), as a 1-based position
\* of the first character after it), 0 when nothing matches
SearchSteps(s) ==
    LET hits == {i \in 1..Len(s) : steps_pattern(s, i) # 0}
    IN  IF hits = {} THEN 0
        ELSE steps_pattern(s, CHOOSE i \in hits : \A j \in hits : i <= j)
SearchRequirements(s) ==
    LET hits == {i \in 1..Len(s) : requirements_pattern(s, i) # 0}
    IN  IF hits = {} THEN 0
        ELSE requirements_pattern(s, CHOOSE i \in hits : \A j \in hits : i <= j)

(***************************************************************************)
(* The list item patterns, matched on a stripped line.  Each gives the     *)
(* captured text, None when the line does not match.                       *)
(***************************************************************************)
\* re.match(r'^\d+\.\s+(.+)$', line).group(1).strip()
numbered_match(line) ==
    LET d == SkipDigits(line, 1)
        w == SkipSpace(line, d + 1)
    IN  IF d > 1 /\ d <= Len(line) /\ line[d] = "." /\ w > d + 1
        THEN Strip(From(line, w)) ELSE None

\* re.match(r'^[-*]\s+(.+)$', line).group(1).strip()
bullet_match(line) ==
    LET w == SkipSpace(line, 2)
    IN  IF line # <<>> /\ line[1] \in {"-", "*"} /\ w > 2
        THEN Strip(From(line, w)) ELSE None

\* a value Python takes as true in `if text:`
Truthy(text) == text # None /\ text # <<>>

\* the list item of a line: numbered first, then bulleted
ItemText(line) ==
    IF Truthy(numbered_match(line)) THEN numbered_match(line) ELSE bullet_match(line)

\* line.startswith(('1', ..., '9', '-', '*'))
StartsLikeItem(line) ==
    line # <<>> /\ line[1] \in {"1","2","3","4","5","6","7","8","9","-","*"}

\* a line that starts with '*' and ends with '*' or holds a ':'
IsSectionHeader(line) ==
    StartsWith(line, <<"*">>) /\ (EndsWith(line, <<"*">>) \/ Contains(line, ":"))

Ellipsis == <<".", ".", ".">>
\* the leading "..." of a Robot Framework continuation line removed
Unwrap(line) ==
    IF StartsWith(line, Ellipsis) THEN Strip(From(line, 4)) ELSE line

Pass == <<"p","a","s","s">>

\* steps[step_name] = expected_behavior on an insertion-ordered dict, kept as
\* a sequence of <<key, value>> pairs
DictPut(d, k, v) ==
    IF \E i \in 1..Len(d) : d[i][1] = k
    THEN [i \in 1..Len(d) |-> IF d[i][1] = k THEN <<k, v>> ELSE d[i]]
    ELSE Append(d, <<k, v>>)

\* the step name and the expected behaviour of an item
StepEntry(step_text) ==
    LET i == Find(step_text, <<"/">>)
    IN  IF i # 0
        THEN <<Strip(SubSeq(step_text, 1, i - 1)), Strip(From(step_text, i + 1))>>
        ELSE <<step_text, Pass>>

\* the loop over the lines after the Steps header, from line k on
RECURSIVE StepsLoop(_, _, _)
StepsLoop(lines, k, steps) ==
    IF k > Len(lines) THEN steps
    ELSE LET line0 == Strip(lines[k])
             line == Unwrap(line0)
             step_text == ItemText(line)
         IN  IF IsSectionHeader(line0) THEN steps
             ELSE IF line0 = <<>> \/ line0 = Ellipsis
                  THEN StepsLoop(lines, k + 1, steps)
             ELSE IF Truthy(step_text)
                  THEN StepsLoop(lines, k + 1,
                           DictPut(steps, StepEntry(step_text)[1], StepEntry(step_text)[2]))
             ELSE IF steps # <<>> /\ ~StartsLikeItem(line) THEN steps
             ELSE StepsLoop(lines, k + 1, steps)

_extract_steps_from_documentation(doc) ==
    IF ~Truthy(doc) THEN <<>>
    ELSE LET e == SearchSteps(doc)
         IN  IF e = 0 THEN <<>>
             ELSE StepsLoop(Split(From(doc, e), "\n"), 1, <<>>)

\* the loop over the lines after the Requirements header, from line k on
RECURSIVE RequirementsLoop(_, _, _)
RequirementsLoop(lines, k, requirements) ==
    IF k > Len(lines) THEN requirements
    ELSE LET line0 == Strip(lines[k])
             line == Unwrap(line0)
             item == ItemText(line)
             req_text == IF ~Truthy(item) /\ line # <<>> THEN line ELSE item
         IN  IF IsSectionHeader(line0) THEN requirements
             ELSE IF line0 = <<>> \/ line0 = Ellipsis
                  THEN RequirementsLoop(lines, k + 1, requirements)
             ELSE IF Truthy(req_text)
                  THEN RequirementsLoop(lines, k + 1, Append(requirements, req_text))
             ELSE IF requirements # <<>> /\ ~StartsLikeItem(line) THEN requirements
             ELSE RequirementsLoop(lines, k + 1, requirements)

_extract_requirements_from_documentation(doc) ==
    IF ~Truthy(doc) THEN <<>>
    ELSE LET e == SearchRequirements(doc)
         IN  IF e = 0 THEN <<>>
             ELSE RequirementsLoop(Split(From(doc, e), "\n"), 1, <<>>)

(***************************************************************************)
(* Documentation texts: a first line followed by up to MaxItems lines.     *)
(***************************************************************************)
hSteps == <<"S","t","e","p","s">>
hStepsColon == <<"S","t","e","p","s",":">>
hStarSteps == <<"*","S","t","e","p","s","*">>
hStarStepsColon == <<"*","S","t","e","p","s",":","*">>
hStepsExpected == <<"*","S","t","e","p","s"," ","/"," ","E","x","p","e","c","t","e","d","*">>
hStepsUpper == <<"S","T","E","P","S",":">>
hRequirementsColon == <<"R","e","q","u","i","r","e","m","e","n","t","s",":">>
hStarRequirements == <<"*","R","e","q","u","i","r","e","m","e","n","t","s","*">>
hStarRequirementsColon == <<"*","R","e","q","u","i","r","e","m","e","n","t","s",":","*">>
hRequirementsUpper == <<"R","E","Q","U","I","R","E","M","E","N","T","S",":">>
hNotes == <<"N","o","t","e","s">>
lOpenDB == <<"1","."," ","O","p","e","n"," ","D","B"," ","/"," ","v","e","r","i","f","y"," ","c","o","n","n","e","c","t","i","o","n">>
lCloseDB == <<"2","."," ","C","l","o","s","e"," ","D","B">>
lReq1 == <<"-"," ","R","E","Q","-","1">>
lReq2 == <<"-"," ","R","E","Q","-","2">>
lStarReq3 == <<"*"," ","R","E","Q","-","3">>
lNotesNA == <<"N","o","t","e","s",":"," ","n","/","a">>
lExpected == <<"*","E","x","p","e","c","t","e","d","*">>

StepsHeaders ==
    {hSteps, hStepsColon, hStarSteps, hStarStepsColon, hStepsExpected, hStepsUpper}
RequirementsHeaders ==
    {hRequirementsColon, hStarRequirements, hStarRequirementsColon, hRequirementsUpper}
FirstLines == StepsHeaders \cup RequirementsHeaders \cup {hNotes}
ItemLines == {lOpenDB, lCloseDB, lReq1, lReq2, lStarReq3, lNotesNA, lExpected, <<>>}

\* '\n'.join(lines)
RECURSIVE JoinLines(_)
JoinLines(lines) ==
    IF lines = <<>> THEN <<>>
    ELSE IF Len(lines) = 1 THEN lines[1]
    ELSE lines[1] \o <<"\n">> \o JoinLines(Tail(lines))

SeqsUpTo(S, n) == UNION {[1..k -> S] : k \in 0..n}

Docs ==
    {None, <<>>}
    \cup {JoinLines(<<h>> \o items) : h \in FirstLines, items \in SeqsUpTo(ItemLines, MaxItems)}

(***************************************************************************)
(* The text extractors as operations on a documentation text.              *)
(***************************************************************************)
InitText ==
    /\ filename_prefix_pattern = None
    /\ report = None
    /\ rebot_installed = FALSE
    /\ storage = {}
    /\ logs = {}
    /\ test_cases = <<>>
    /\ idx = 0
    /\ prefix = None
    /\ rendered = <<>>
    /\ doc_text \in Docs
    /\ ret = None
    /\ folder = NoFolder
    /\ pc = "idle"

ExtractSteps ==
    /\ pc = "idle"
    /\ ret' = _extract_steps_from_documentation(doc_text)
    /\ pc' = "steps"
    /\ UNCHANGED <<filename_prefix_pattern, report, rebot_installed, storage, logs,
                   test_cases, idx, prefix, rendered, doc_text, folder>>

ExtractRequirements ==
    /\ pc = "idle"
    /\ ret' = _extract_requirements_from_documentation(doc_text)
    /\ pc' = "requirements"
    /\ UNCHANGED <<filename_prefix_pattern, report, rebot_installed, storage, logs,
                   test_cases, idx, prefix, rendered, doc_text, folder>>

NextText == ExtractSteps \/ ExtractRequirements

SpecText == InitText /\ [][NextText]_vars

(***************************************************************************)
(* Claims about the text extractors, checked under SpecText.               *)
(***************************************************************************)
\* the lines of the documentation text: the first line, then the lines after it
DocLines == IF Truthy(doc_text) THEN Split(doc_text, "\n") ELSE <<>>
FollowingLines == IF DocLines = <<>> THEN <<>> ELSE Tail(DocLines)

\* a numbered ('<digits>. text') or bulleted ('- text', '* text') line
IsListLine(l) == l \in {lOpenDB, lCloseDB, lReq1, lReq2, lStarReq3}
\* a non-empty line with no list marker that is no header either
IsProseLine(l) == l = lNotesNA
\* the text of a list line after its marker
ListLineText(l) ==
    IF l \in {lOpenDB, lCloseDB} THEN From(l, 4) ELSE From(l, 3)

REQ1 == <<"R","E","Q","-","1">>
REQ2 == <<"R","E","Q","-","2">>

\* C4: requirements extraction stops at the first prose line that follows a
\* collected item: the prose line and what follows it are not in the result, and
\* "Requirements:\n- REQ-1\n- REQ-2\nNotes: n/a" gives exactly [REQ-1, REQ-2].
C4_StopsAtFirstProseLine ==
    (pc = "requirements" /\ DocLines # <<>> /\ DocLines[1] = hRequirementsColon) =>
        /\ \A k \in 2..Len(FollowingLines) :
              (IsListLine(FollowingLines[1]) /\ IsProseLine(FollowingLines[k]))
                  => Len(ret) <= k - 1
        /\ FollowingLines = <<lReq1, lReq2, lNotesNA>> => ret = <<REQ1, REQ2>>

\* C5: a Steps header followed by N numbered or bulleted lines gives exactly N
\* entries, in the order of the lines; a text with no Steps header (also an
\* empty or absent one) gives the empty mapping.
C5_OneEntryPerListLine ==
    pc = "steps" =>
        /\ (/\ DocLines # <<>>
            /\ DocLines[1] \in StepsHeaders
            /\ \A k \in 1..Len(FollowingLines) : IsListLine(FollowingLines[k]))
           => /\ Len(ret) = Len(FollowingLines)
              /\ \A k \in 1..Len(ret) :
                    ret[k][1] = StepEntry(ListLineText(FollowingLines[k]))[1]
        /\ (DocLines = <<>> \/ DocLines[1] \notin StepsHeaders) => ret = <<>>

\* C6: each documented header form, in any letter case, followed by list item
\* lines yields those items: what is left of the header line after the match
\* never ends the scan with an empty result.
C6_EveryHeaderFormRecognised ==
    (/\ DocLines # <<>>
     /\ FollowingLines # <<>>
     /\ \A k \in 1..Len(FollowingLines) : IsListLine(FollowingLines[k]))
    => /\ (pc = "steps" /\ DocLines[1] \in StepsHeaders)
            => \A k \in 1..Len(FollowingLines) :
                  \E e \in 1..Len(ret) :
                      ret[e][1] = StepEntry(ListLineText(FollowingLines[k]))[1]
       /\ (pc = "requirements" /\ DocLines[1] \in RequirementsHeaders)
            => \A k \in 1..Len(FollowingLines) :
                  \E e \in 1..Len(ret) : ret[e] = ListLineText(FollowingLines[k])

(***************************************************************************)
(* xml.etree.ElementTree: an element is a record of its tag, its           *)
(* attributes, its text and its children.  Writing a tree to a file and    *)
(* parsing the file gives the same tree for the texts and attribute values *)
(* used here (ET.indent changes only the whitespace text of elements with  *)
(* children), so a file's content is kept as the tree.                     *)
(***************************************************************************)
Element(tag, attrib, text, children) ==
    [tag |-> tag, attrib |-> attrib, text |-> text, children |-> children]
NoAttrib == [k \in {} |-> None]

\* e.get(k, default)
Get(e, k, default) == IF k \in DOMAIN e.attrib THEN e.attrib[k] ELSE default

\* e.iter(): the element and its descendants in document order
RECURSIVE Iter(_)
RECURSIVE IterAll(_)
Iter(e) == <<e>> \o IterAll(e.children)
IterAll(es) == IF es = <<>> THEN <<>> ELSE Iter(Head(es)) \o IterAll(Tail(es))

WithTag(es, tag) == LET Is(c) == c.tag = tag IN SelectSeq(es, Is)
\* e.findall('tag'): the children with the tag
findall(e, tag) == WithTag(e.children, tag)
\* e.findall('.//tag'): the descendants with the tag
findall_descendants(e, tag) == WithTag(IterAll(e.children), tag)
\* e.findall('kw[@type="..."]')
findall_kw(e, type) ==
    LET Is(c) == c.tag = "kw" /\ Get(c, "type", None) = type
    IN  SelectSeq(e.children, Is)

SETUP == <<"S","E","T","U","P">>
TEARDOWN == <<"T","E","A","R","D","O","W","N">>

\* e.findall('.//kw[@type="SETUP"]//msg')
RECURSIVE MsgsUnder(_)
MsgsUnder(kws) ==
    IF kws = <<>> THEN <<>>
    ELSE findall_descendants(Head(kws), "msg") \o MsgsUnder(Tail(kws))
SetupMsgs(e) ==
    LET Is(c) == c.tag = "kw" /\ Get(c, "type", None) = SETUP
    IN  MsgsUnder(SelectSeq(IterAll(e.children), Is))

\* sep.join(parts)
RECURSIVE Join(_, _)
Join(parts, sep) ==
    IF parts = <<>> THEN <<>>
    ELSE IF Len(parts) = 1 THEN parts[1]
    ELSE parts[1] \o sep \o Join(Tail(parts), sep)

(***************************************************************************)
(* The prefix resolver.  The configured pattern is r"use (\w+)".           *)
(***************************************************************************)
UsePattern == <<"u","s","e"," ","(","\\","w","+",")">>
kwUse == <<"u","s","e"," ">>

\* self.filename_prefix_pattern.search(text).group(1), None when there is no match
PatternSearch(text) ==
    LET hits == {i \in 1..Len(text) :
                    /\ StartsWith(From(text, i), kwUse)
                    /\ i + 4 <= Len(text)
                    /\ IsWord(text[i + 4])}
        i == CHOOSE h \in hits : \A j \in hits : h <= j
    IN  IF hits = {} THEN None ELSE SubSeq(text, i + 4, SkipWord(text, i + 4) - 1)

\* the loop over messages: the first capture, uppercased
RECURSIVE FirstCapture(_)
FirstCapture(msgs) ==
    IF msgs = <<>> THEN None
    ELSE LET text == Head(msgs).text
             m == IF Truthy(text) THEN PatternSearch(text) ELSE None
         IN  IF m # None THEN Upper(m) ELSE FirstCapture(Tail(msgs))

\* s1-s1-s1 -> [s1-s1, s1]
parent_ids(suite_id) ==
    LET parts == Split(suite_id, "-")
    IN  [k \in 1..(Len(parts) - 1) |->
            Join(SubSeq(parts, 1, Len(parts) - k), <<"-">>)]

\* root.find(f".//suite[@id='{parent_id}']"): a sequence, empty when not found
FindSuite(root, parent_id) ==
    LET Is(c) == c.tag = "suite" /\ Get(c, "id", None) = parent_id
        found == SelectSeq(IterAll(root.children), Is)
    IN  IF found = <<>> THEN <<>> ELSE <<Head(found)>>

\* the loop over the parent suites
RECURSIVE ParentCapture(_, _)
ParentCapture(root, ids) ==
    IF ids = <<>> THEN None
    ELSE LET parent_suite == FindSuite(root, Head(ids))
             m == IF parent_suite = <<>> THEN None
                  ELSE FirstCapture(SetupMsgs(Head(parent_suite)))
         IN  IF m # None THEN m ELSE ParentCapture(root, Tail(ids))

_extract_filename_prefix(test, suite, root) ==
    IF ~Truthy(filename_prefix_pattern) THEN None
    ELSE LET own == FirstCapture(SetupMsgs(suite))
             up == ParentCapture(root, parent_ids(Get(suite, "id", <<>>)))
         IN  IF own # None THEN own
             ELSE IF up # None THEN up
             ELSE FirstCapture(findall_descendants(test, "msg"))

(***************************************************************************)
(* File names: str(idx), int(digits), str.replace, Path.stem.              *)
(***************************************************************************)
DigitChars == <<"0","1","2","3","4","5","6","7","8","9">>
DigitValue(c) == (CHOOSE i \in 1..10 : DigitChars[i] = c) - 1

\* str(n) of a natural number
RECURSIVE IntToStr(_)
IntToStr(n) ==
    IF n < 10 THEN <<DigitChars[n + 1]>>
    ELSE IntToStr(n \div 10) \o <<DigitChars[(n % 10) + 1]>>

\* int(s) of a digit string
RECURSIVE StrToInt(_)
StrToInt(s) ==
    IF s = <<>> THEN 0
    ELSE 10 * StrToInt(SubSeq(s, 1, Len(s) - 1)) + DigitValue(s[Len(s)])

\* an f-string field: str(x)
Fmt(x) == IF x = None THEN <<"N","o","n","e">> ELSE x

\* test_name.replace(' ', '_').replace('/', '_').replace('\\', '_')
safe_name(test_name) ==
    [i \in 1..Len(test_name) |->
        IF test_name[i] \in {" ", "/", "\\"} THEN "_" ELSE test_name[i]]

DotXml == <<".","x","m","l">>
LogHtml == <<"_","l","o","g",".","h","t","m","l">>

\* f"{idx}_{prefix}_{safe_name}_{test_id}" or f"{idx}_{safe_name}_{test_id}"
FileStem(i, pfx, test_name, test_id) ==
    IntToStr(i) \o <<"_">>
        \o (IF Truthy(pfx) THEN pfx \o <<"_">> ELSE <<>>)
        \o safe_name(test_name) \o <<"_">> \o Fmt(test_id)
xml_filename(i, pfx, test_name, test_id) ==
    FileStem(i, pfx, test_name, test_id) \o DotXml
log_filename(i, pfx, test_name, test_id) ==
    FileStem(i, pfx, test_name, test_id) \o LogHtml

\* Path(name).stem: the name without its last suffix
Stem(name) ==
    LET dots == {i \in 2..Len(name) : name[i] = "."}
    IN  IF dots = {} THEN name
        ELSE SubSeq(name, 1, (CHOOSE i \in dots : \A j \in dots : j <= i) - 1)

\* re.match(r'^(\d+)_', filename): int(group(1)), 0 when there is no match
FilenameIndex(filename) ==
    LET d == SkipDigits(filename, 1)
    IN  IF d > 1 /\ d <= Len(filename) /\ filename[d] = "_"
        THEN StrToInt(SubSeq(filename, 1, d - 1)) ELSE 0

(***************************************************************************)
(* split_to_chunks: the standalone document of one (suite, test) pair.     *)
(***************************************************************************)
PASS == <<"P","A","S","S">>
FAIL == <<"F","A","I","L">>
SKIP == <<"S","K","I","P">>
UNKNOWN == <<"U","N","K","N","O","W","N">>
AllTests == <<"A","l","l"," ","T","e","s","t","s">>

\* the pairs of test_cases, suite by suite
RECURSIVE PairsOf(_)
PairsOf(suites) ==
    IF suites = <<>> THEN <<>>
    ELSE LET suite == Head(suites)
             tests == findall(suite, "test")
         IN  [k \in 1..Len(tests) |-> <<suite, tests[k]>>] \o PairsOf(Tail(suites))
TestCases(root) == PairsOf(findall_descendants(root, "suite"))

\* '1' if test_status == status else '0'
Count(test_status, status) == IF test_status = status THEN <<"1">> ELSE <<"0">>

\* test.find('status').get('status'), taken when the status element exists
TestStatus(test) == Get(Head(findall(test, "status")), "status", None)

\* a fail count that follows the SKIP status instead of FAIL
fail_count_of_skip(test) == Count(TestStatus(test), SKIP)

pass_count(test) == Count(TestStatus(test), PASS)
fail_count(test) == Count(TestStatus(test), FAIL)
skip_count(test) == Count(TestStatus(test), SKIP)

Counts(test) ==
    [pass |-> pass_count(test), fail |-> fail_count(test), skip |-> skip_count(test)]

Statistics(suite, test) ==
    LET tags == findall(test, "tag")
        total == Element("total", NoAttrib, None,
                     <<Element("stat", Counts(test), AllTests, <<>>)>>)
        tag_stats == Element("tag", NoAttrib, None,
                     [k \in 1..Len(tags) |->
                         Element("stat", Counts(test), tags[k].text, <<>>)])
        suite_stats == Element("suite", NoAttrib, None,
                     <<Element("stat",
                           [name |-> Get(suite, "name", None),
                            id |-> Get(suite, "id", None),
                            pass |-> pass_count(test),
                            fail |-> fail_count(test),
                            skip |-> skip_count(test)], None, <<>>)>>)
    IN  Element("statistics", NoAttrib, None, <<total, tag_stats, suite_stats>>)

NewSuite(suite, test) ==
    Element("suite", suite.attrib, None,
        findall(suite, "source") \o findall_kw(suite, SETUP) \o <<test>>
            \o findall_kw(suite, TEARDOWN) \o findall(suite, "doc"))

NewRoot(root, suite, test) ==
    Element("robot", root.attrib, None,
        <<NewSuite(suite, test), Statistics(suite, test),
          Element("errors", NoAttrib, None, <<>>)>>)

\* the pair being processed
CurSuite == test_cases[idx][1]
CurTest == test_cases[idx][2]

\* the statements that raise before the document is written: test_name.replace
\* on a test without a name, test.find('status').get on a test without a status
RaisesInSplit(suite, test) ==
    \/ Get(test, "name", None) = None
    \/ findall(test, "status") = <<>>

\* the open(..., 'w') of new_tree.write
WriteFile(files, name, root) == {f \in files : f[1] # name} \cup {<<name, root>>}

SplitStart ==
    /\ pc = "idle"
    /\ test_cases' = TestCases(report)
    /\ idx' = IF test_cases' = <<>> THEN 0 ELSE 1
    /\ pc' = IF test_cases' = <<>> THEN "done" ELSE "write"
    /\ UNCHANGED <<filename_prefix_pattern, report, rebot_installed, storage, logs,
                   prefix, rendered, doc_text, ret, folder>>

\* lines 464-552 for a pair whose document is written
SplitWrite ==
    /\ pc = "write"
    /\ ~RaisesInSplit(CurSuite, CurTest)
    /\ prefix' = _extract_filename_prefix(CurTest, CurSuite, report)
    /\ storage' = WriteFile(storage,
                      xml_filename(idx, prefix', Get(CurTest, "name", None),
                                   Get(CurTest, "id", None)),
                      NewRoot(report, CurSuite, CurTest))
    /\ pc' = "render"
    /\ UNCHANGED <<filename_prefix_pattern, report, rebot_installed, logs,
                   test_cases, idx, rendered, doc_text, ret, folder>>

\* lines 464-516 for a pair on which an exception is raised: nothing catches
\* it, and it leaves split_to_chunks
SplitRaise ==
    /\ pc = "write"
    /\ RaisesInSplit(CurSuite, CurTest)
    /\ prefix' = _extract_filename_prefix(CurTest, CurSuite, report)
    /\ pc' = "raised"
    /\ UNCHANGED <<filename_prefix_pattern, report, rebot_installed, storage, logs,
                   test_cases, idx, rendered, doc_text, ret, folder>>

CurXml ==
    xml_filename(idx, prefix, Get(CurTest, "name", None), Get(CurTest, "id", None))
CurLog ==
    log_filename(idx, prefix, Get(CurTest, "name", None), Get(CurTest, "id", None))

\* the end of the loop body: the next pair, or the return
LoopNext ==
    /\ idx' = IF idx < Len(test_cases) THEN idx + 1 ELSE idx
    /\ pc' = IF idx < Len(test_cases) THEN "write" ELSE "done"

\* subprocess.run returns 0: rebot wrote the log
RenderOk ==
    /\ pc = "render"
    /\ rebot_installed
    /\ rendered' = Append(rendered, CurXml)
    /\ logs' = logs \cup {CurLog}
    /\ LoopNext
    /\ UNCHANGED <<filename_prefix_pattern, report, rebot_installed, storage,
                   test_cases, prefix, doc_text, ret, folder>>

\* subprocess.run returns a nonzero code: logged
RenderFailed ==
    /\ pc = "render"
    /\ rebot_installed
    /\ rendered' = Append(rendered, CurXml)
    /\ LoopNext
    /\ UNCHANGED <<filename_prefix_pattern, report, rebot_installed, storage, logs,
                   test_cases, prefix, doc_text, ret, folder>>

\* subprocess.run raises FileNotFoundError: caught and logged
RenderNotFound ==
    /\ pc = "render"
    /\ ~rebot_installed
    /\ rendered' = Append(rendered, CurXml)
    /\ LoopNext
    /\ UNCHANGED <<filename_prefix_pattern, report, rebot_installed, storage, logs,
                   test_cases, prefix, doc_text, ret, folder>>

(***************************************************************************)
(* get_data_from_chunk and get_data_from_chunks.                           *)
(***************************************************************************)
mTests == <<"/","t","e","s","t","s","/">>
mScripts == <<"/","s","c","r","i","p","t","s","/">>

\* the marker loop of lines 279-284: the normalized source
test_source_normalized(test_source) ==
    LET low == Lower(test_source)
        i1 == Find(low, mTests)
        i2 == Find(low, mScripts)
    IN  IF i1 # 0 THEN From(low, i1 + 1)
        ELSE IF i2 # 0 THEN From(low, i2 + 1)
        ELSE low

\* the marker loop of lines 279-284: the value it leaves in idx (str.find's
\* 0-based position, -1 when the marker is not found)
MarkerLoopIdx(test_source) ==
    LET low == Lower(test_source)
        i1 == Find(low, mTests)
        i2 == Find(low, mScripts)
    IN  IF i1 # 0 THEN i1 - 1 ELSE i2 - 1

\* the index of the record: idx is set from the file name at line 266 and
\* assigned again by the marker loop, which always runs
RecordIndex(filename, test_source) == MarkerLoopIdx(test_source)

\* hashlib.md5(data).hexdigest(): a hash taken as injective
md5_hexdigest(data) == <<"md5", data>>

\* checksum data that leaves the documentation out
checksum_data_without_doc(test_name, test_doc, source_normalized) ==
    test_name \o source_normalized

checksum_data(test_name, test_doc, source_normalized) ==
    test_name \o test_doc \o source_normalized

\* test_doc_element.text if the element exists and has text, else ''
TestDoc(test) ==
    LET docs == findall(test, "doc")
    IN  IF docs # <<>> /\ Truthy(Head(docs).text) THEN Head(docs).text ELSE <<>>

\* status_element.get('status', 'UNKNOWN') if the element exists, else 'UNKNOWN'
ReadStatus(test) ==
    LET st == findall(test, "status")
    IN  IF st # <<>> THEN Get(Head(st), "status", UNKNOWN) ELSE UNKNOWN

\* what ET.parse finds at a path that holds no document it can parse: text that
\* is not well-formed XML, a directory, nothing
NotWellFormed == Element("not well-formed", NoAttrib, None, <<>>)
IsADirectory == Element("directory", NoAttrib, None, <<>>)
NoSuchFile == Element("no such file", NoAttrib, None, <<>>)

ErrParsing == <<"X","M","L"," ","p","a","r","s","i","n","g"," ","e","r","r","o","r">>
ErrReading == <<"E","r","r","o","r"," ","r","e","a","d","i","n","g"," ","c","h","u","n","k">>
ErrNoSuite == <<"N","o"," ","s","u","i","t","e">>
ErrNoTest == <<"N","o"," ","t","e","s","t">>

get_data_from_chunk(filename, root) ==
    LET suites == findall_descendants(root, "suite")
        suite == Head(suites)
        tests == findall(suite, "test")
        test == Head(tests)
        test_name == Get(test, "name", <<>>)
        test_doc == TestDoc(test)
        test_source == Get(suite, "source", <<>>)
        log == Stem(filename) \o LogHtml
        result ==
            [index |-> RecordIndex(filename, test_source),
             test_name |-> test_name,
             test_id |-> Get(test, "id", <<>>),
             status |-> ReadStatus(test),
             documentation |-> test_doc,
             steps |-> _extract_steps_from_documentation(test_doc),
             requirements |-> _extract_requirements_from_documentation(test_doc),
             source |-> test_source,
             xml_file |-> filename,
             checksum |-> md5_hexdigest(checksum_data(test_name, test_doc,
                              test_source_normalized(test_source))),
             success |-> TRUE,
             interface |-> IF Truthy(filename_prefix_pattern)
                           THEN _extract_filename_prefix(test, suite, root)
                           ELSE None]
    IN  IF root = NotWellFormed
        THEN [xml_file |-> filename, success |-> FALSE, error |-> ErrParsing]
        ELSE IF root \in {IsADirectory, NoSuchFile}
        THEN [xml_file |-> filename, success |-> FALSE, error |-> ErrReading]
        ELSE IF suites = <<>>
        THEN [xml_file |-> filename, success |-> FALSE, error |-> ErrNoSuite]
        ELSE IF tests = <<>>
        THEN [xml_file |-> filename, success |-> FALSE, error |-> ErrNoTest]
        ELSE IF log \in logs THEN result @@ [log_file |-> log]
        ELSE result

\* the order of str: the characters in code point order
Ascii == <<"\t", "\n", " ", "(", ")", "*", "+", "-", ".", "/",
           "0","1","2","3","4","5","6","7","8","9", ":",
           "A","B","C","D","E","F","G","H","I","J","K","L","M",
           "N","O","P","Q","R","S","T","U","V","W","X","Y","Z", "\\", "_",
           "a","b","c","d","e","f","g","h","i","j","k","l","m",
           "n","o","p","q","r","s","t","u","v","w","x","y","z">>
Ord(c) == CHOOSE i \in 1..Len(Ascii) : Ascii[i] = c

\* a < b on str
RECURSIVE StrLess(_, _)
StrLess(a, b) ==
    IF b = <<>> THEN FALSE
    ELSE IF a = <<>> THEN TRUE
    ELSE IF Head(a) = Head(b) THEN StrLess(Tail(a), Tail(b))
    ELSE Ord(Head(a)) < Ord(Head(b))

\* sorted(folder.glob('*.xml')) with each file read by get_data_from_chunk
RECURSIVE ReadSorted(_)
ReadSorted(files) ==
    IF files = {} THEN <<>>
    ELSE LET f == CHOOSE g \in files : \A h \in files : h = g \/ StrLess(g[1], h[1])
         IN  <<get_data_from_chunk(f[1], f[2])>> \o ReadSorted(files \ {f})

\* a bulk read that takes every file of the folder
get_data_from_chunks_unfiltered(folder_path) ==
    IF ~folder_path.exists THEN <<>>
    ELSE IF ~folder_path.is_dir THEN <<>>
    ELSE ReadSorted(folder_path.files)

get_data_from_chunks(folder_path) ==
    IF ~folder_path.exists THEN <<>>
    ELSE IF ~folder_path.is_dir THEN <<>>
    ELSE ReadSorted({f \in folder_path.files : EndsWith(f[1], DotXml)})

\* the reader is called on output_dir once split_to_chunks has ended
SplitReturned == pc \in {"done", "raised"}

\* files of the folder that split_to_chunks did not write
nBadXml == <<"b","a","d",".","x","m","l">>
nDirXml == <<"d","i","r",".","x","m","l">>
nNoSuiteXml == <<"2","_","n","o","s","u","i","t","e",".","x","m","l">>
nNestedXml == <<"n","e","s","t","e","d",".","x","m","l">>
nNotesTxt == <<"n","o","t","e","s",".","t","x","t">>
nGoneXml == <<"g","o","n","e",".","x","m","l">>

NoSuiteDocument == Element("robot", NoAttrib, None, <<Element("errors", NoAttrib, None, <<>>)>>)
NestedSuiteDocument ==
    Element("robot", NoAttrib, None,
        <<Element("suite", [id |-> <<"s","1">>], None,
              <<Element("suite", [id |-> <<"s","1","-","s","1">>], None,
                    <<Element("test", [id |-> <<"t">>, name |-> <<"n">>], None,
                          <<Element("status", [status |-> <<"P","A","S","S">>], None, <<>>)>>)>>)>>)>>)

ForeignFiles ==
    {<<nBadXml, NotWellFormed>>, <<nDirXml, IsADirectory>>,
     <<nNoSuiteXml, NoSuiteDocument>>, <<nNestedXml, NestedSuiteDocument>>,
     <<nNotesTxt, NotWellFormed>>}

\* the folders get_data_from_chunks can be given once split_to_chunks has
\* ended: a path that does not exist, a path to a file, output_dir with the
\* written documents and files put there by others
Folders ==
    {Folder(FALSE, FALSE, {}), Folder(TRUE, FALSE, {})}
    \cup {Folder(TRUE, TRUE, storage \cup X) :
             X \in {Y \in SUBSET ForeignFiles : Cardinality(Y) <= MaxForeign}}

GetDataFromChunk ==
    /\ SplitReturned
    /\ \E f \in storage \cup ForeignFiles \cup {<<nGoneXml, NoSuchFile>>} :
          ret' = get_data_from_chunk(f[1], f[2])
    /\ pc' = "chunk"
    /\ UNCHANGED <<filename_prefix_pattern, report, rebot_installed, storage, logs,
                   test_cases, idx, prefix, rendered, doc_text, folder>>

GetDataFromChunks ==
    /\ SplitReturned
    /\ \E d \in Folders :
          /\ folder' = d
          /\ ret' = get_data_from_chunks(d)
    /\ pc' = "chunks"
    /\ UNCHANGED <<filename_prefix_pattern, report, rebot_installed, storage, logs,
                   test_cases, idx, prefix, rendered, doc_text>>

Next ==
    \/ SplitStart
    \/ SplitWrite
    \/ SplitRaise
    \/ RenderOk
    \/ RenderFailed
    \/ RenderNotFound
    \/ GetDataFromChunk
    \/ GetDataFromChunks

(***************************************************************************)
(* Aggregated reports, as Robot Framework writes them: a directory suite   *)
(* holds suites, a file suite holds tests; a suite's children are its      *)
(* setup, its suites or tests, its teardown and its documentation.         *)
(***************************************************************************)
segS1 == <<"s","1">>
segS2 == <<"s","2">>
nRoot == <<"R","o","o","t">>
nSuite == <<"S","u","i","t","e">>
nLoginOk == <<"L","o","g","i","n"," ","o","k">>
nSlash == <<"a","/","b">>
nSkipped == <<"S","k","i","p","p","e","d">>
nPending == <<"P","e","n","d","i","n","g">>
nBroken == <<"B","r","o","k","e","n">>
nAB == <<"a","b">>
nA == <<"a">>
dC == <<"c">>
dBC == <<"b","c">>
NOTRUN == <<"N","O","T"," ","R","U","N">>
tagSmoke == <<"s","m","o","k","e">>
tagDb == <<"d","b">>
mReady == <<"r","e","a","d","y">>
srcTests == <<"/","r","/","t","e","s","t","s","/","x">>
srcTestsUpper == <<"/","Q","/","T","e","s","t","s","/","x">>
srcScriptsTests == <<"/","r","/","s","c","r","i","p","t","s","/","t","e","s","t","s","/","x">>
srcPlain == <<"/","r","/","x">>

Msg(text) == Element("msg", NoAttrib, text, <<>>)
Kw(type, msgs) == Element("kw", [type |-> type], None, msgs)
KwPlain(msgs) == Element("kw", NoAttrib, None, msgs)
DocEl(text) == Element("doc", NoAttrib, text, <<>>)
TagEl(text) == Element("tag", NoAttrib, text, <<>>)
StatusEl(status) == Element("status", [status |-> status], None, <<>>)

ChildId(id, seg) == id \o <<"-">> \o seg
TestId(suite_id, k) == suite_id \o <<"-", "t">> \o IntToStr(k)

TestKinds == {"pass", "fail", "skip", "notrun", "nostatus", "noname"}

MkTest(kind, id) ==
    CASE kind = "pass" ->
            Element("test", [id |-> id, name |-> nLoginOk], None,
                <<KwPlain(<<Msg(mReady)>>), DocEl(JoinLines(<<hStepsColon, lReq1>>)),
                  TagEl(tagSmoke), TagEl(tagDb), StatusEl(PASS)>>)
      [] kind = "fail" ->
            Element("test", [id |-> id, name |-> nSlash], None,
                <<TagEl(tagDb), StatusEl(FAIL)>>)
      [] kind = "skip" ->
            Element("test", [id |-> id, name |-> nSkipped], None, <<StatusEl(SKIP)>>)
      [] kind = "notrun" ->
            Element("test", [id |-> id, name |-> nPending], None,
                <<TagEl(tagSmoke), StatusEl(NOTRUN)>>)
      [] kind = "nostatus" ->
            Element("test", [id |-> id, name |-> nBroken], None, <<TagEl(tagDb)>>)
      [] kind = "noname" ->
            Element("test", [id |-> id], None, <<StatusEl(PASS)>>)

SuiteEl(id, name, source, children) ==
    Element("suite", [id |-> id, name |-> name, source |-> source], None, children)

\* the root element: the top suite, the run-wide statistics, the errors
RobotEl(suite) ==
    Element("robot", [generator |-> <<"R","o","b","o","t">>], None,
        <<suite,
          Element("statistics", NoAttrib, None,
              <<Element("suite", NoAttrib, None,
                    <<Element("stat", [id |-> segS1, name |-> nRoot], nRoot, <<>>)>>)>>),
          Element("errors", NoAttrib, None, <<>>)>>)

\* reports that differ in the number of tests, their status and their name
ShapeReport(kinds1, kinds2) ==
    LET id1 == ChildId(segS1, segS1)
        id2 == ChildId(segS1, segS2)
    IN  RobotEl(SuiteEl(segS1, nRoot, <<"/","r">>,
            <<SuiteEl(id1, nSuite, srcTests,
                  <<Kw(SETUP, <<Msg(mReady)>>)>>
                      \o [k \in 1..Len(kinds1) |-> MkTest(kinds1[k], TestId(id1, k))]
                      \o <<Kw(TEARDOWN, <<>>), DocEl(dC)>>),
              SuiteEl(id2, nAB, srcPlain,
                  [k \in 1..Len(kinds2) |-> MkTest(kinds2[k], TestId(id2, k))])>>))

ShapeReports ==
    {ShapeReport(k1, <<"pass">>) : k1 \in SeqsUpTo(TestKinds, MaxTests)}

\* reports that differ in where a message matches the prefix pattern: in the
\* setup of the root suite (a), of its child (b), of the grandchild that holds
\* the tests (c), of the root's second child (d), in the setup (e) and the body
\* (f) of the grandchild's first test, in the setup of its second test (g)
Places == {"a", "b", "c", "d", "e", "f", "g"}
Use(P, c) == IF c \in P THEN <<Msg(kwUse \o <<c>>)>> ELSE <<>>

PrefixReport(P) ==
    LET id1 == ChildId(segS1, segS1)
        id11 == ChildId(id1, segS1)
        id2 == ChildId(segS1, segS2)
    IN  RobotEl(SuiteEl(segS1, nRoot, <<"/","r">>,
            <<Kw(SETUP, <<Msg(mReady)>> \o Use(P, "a")),
              SuiteEl(id1, nSuite, <<"/","r">>,
                  <<Kw(SETUP, <<Msg(None)>> \o Use(P, "b")),
                    SuiteEl(id11, nAB, srcTests,
                        <<Kw(SETUP, Use(P, "c")),
                          Element("test", [id |-> TestId(id11, 1), name |-> nA], None,
                              <<Kw(SETUP, Use(P, "e")),
                                KwPlain(<<KwPlain(Use(P, "f"))>>),
                                StatusEl(PASS)>>),
                          Element("test", [id |-> TestId(id11, 2), name |-> nAB], None,
                              <<Kw(SETUP, Use(P, "g")), StatusEl(FAIL)>>)>>)>>),
              SuiteEl(id2, nA, srcPlain,
                  <<Kw(SETUP, Use(P, "d")),
                    Element("test", [id |-> TestId(id2, 1), name |-> nA], None,
                        <<StatusEl(PASS)>>)>>)>>))

PrefixReports == {PrefixReport(P) : P \in SUBSET Places}

\* reports of two tests that differ in name, documentation and suite source
Names == {nAB, nA}
TestDocs == {dC, dBC}
Sources == {srcTests, srcTestsUpper, srcScriptsTests, srcPlain}
Triples == Names \X TestDocs \X Sources

IdentityReport(t1, t2) ==
    LET id1 == ChildId(segS1, segS1)
        id2 == ChildId(segS1, segS2)
    IN  RobotEl(SuiteEl(segS1, nRoot, <<"/","r">>,
            <<SuiteEl(id1, nSuite, t1[3],
                  <<Element("test", [id |-> TestId(id1, 1), name |-> t1[1]], None,
                        <<DocEl(t1[2]), StatusEl(PASS)>>)>>),
              SuiteEl(id2, nSuite, t2[3],
                  <<Element("test", [id |-> TestId(id2, 1), name |-> t2[1]], None,
                        <<DocEl(t2[2]), StatusEl(PASS)>>)>>)>>))

IdentityReports ==
    {IdentityReport(t1, t2) : t1 \in Names \X TestDocs \X {srcTests}, t2 \in Triples}

\* the report, the configured pattern and whether rebot is installed
Configs ==
    [report : ShapeReports, pattern : {None}, rebot : BOOLEAN]
    \cup [report : PrefixReports, pattern : {None, UsePattern}, rebot : {TRUE}]
    \cup [report : IdentityReports, pattern : {None}, rebot : {FALSE}]

(***************************************************************************)
(* The instance after __init__, the report and the output directory.       *)
(***************************************************************************)
Init ==
    /\ \E c \in Configs :
          /\ filename_prefix_pattern = c.pattern
          /\ report = c.report
          /\ rebot_installed = c.rebot
    /\ storage = {}
    /\ logs = {}
    /\ test_cases = <<>>
    /\ idx = 0
    /\ prefix = None
    /\ rendered = <<>>
    /\ doc_text = None
    /\ ret = None
    /\ folder = NoFolder
    /\ pc = "idle"

Spec == Init /\ [][Next]_vars

(***************************************************************************)
(* Claims about split_to_chunks and the chunk reader, checked under Spec.  *)
(***************************************************************************)
\* the suite of a standalone document and the test in it
DocSuites(root) == findall(root, "suite")
DocTests(root) == findall(Head(DocSuites(root)), "test")
DocTest(root) == Head(DocTests(root))

\* split_to_chunks has ended: it returned, or an exception left it
SplitEnded == pc \in {"done", "raised"}

\* C1: a report with K (suite, test) pairs gives exactly K standalone
\* documents, indexed 1..K in traversal order, each with exactly one test
\* element under its single suite.
C1_OneDocumentPerPair ==
    SplitEnded =>
        LET K == Len(TestCases(report))
        IN  /\ Cardinality(storage) = K
            /\ \A f \in storage :
                  Len(DocSuites(f[2])) = 1 /\ Len(DocTests(f[2])) = 1
            /\ \A i \in 1..K :
                  \E f \in storage :
                      /\ FilenameIndex(f[1]) = i
                      /\ DocTest(f[2]) = TestCases(report)[i][2]

\* C2: a test case whose splitting or rendering fails keeps no other test case
\* from having its document written and its renderer run, and its error does
\* not leave split_to_chunks.
C2_FailureIsolation ==
    /\ pc # "raised"
    /\ pc = "done" =>
          \A j \in 1..Len(test_cases) :
              ~RaisesInSplit(test_cases[j][1], test_cases[j][2]) =>
                  /\ \E f \in storage :
                        FilenameIndex(f[1]) = j /\ DocTest(f[2]) = test_cases[j][2]
                  /\ \E r \in 1..Len(rendered) : FilenameIndex(rendered[r]) = j

\* C3: the index of a successfully read record is the integer of the leading
\* digits of a file name that starts with '<digits>_', and 0 otherwise, whatever
\* the suite's source path: a chunk written with index i is read back with i.
C3_IndexFromFileName ==
    (pc = "chunk" /\ ret.success) => ret.index = FilenameIndex(ret.xml_file)

\* the normalization the claim C7 states: the lowercase path from the earliest
\* 'tests/' or 'scripts/' path segment on, the whole lowercase path without one
SegmentAt(low, i, seg) ==
    StartsWith(From(low, i), seg) /\ (i = 1 \/ low[i - 1] = "/")
EarliestSegmentTail(source) ==
    LET low == Lower(source)
        hits == {i \in 1..Len(low) :
                    \/ SegmentAt(low, i, <<"t","e","s","t","s","/">>)
                    \/ SegmentAt(low, i, <<"s","c","r","i","p","t","s","/">>)}
    IN  IF hits = {} THEN low
        ELSE From(low, CHOOSE i \in hits : \A j \in hits : i <= j)

\* C7: the checksum is taken over the name, the documentation and the lowercase
\* source path cut to start at the earlier of its first 'tests/' and 'scripts/'
\* segments (the whole lowercase path when it has neither).
C7_EarliestMarkerNormalization ==
    (pc = "chunk" /\ ret.success) =>
        ret.checksum = md5_hexdigest(ret.test_name \o ret.documentation
                                         \o EarliestSegmentTail(ret.source))

\* the triple the checksum of a record is taken over
TripleOf(r) == <<r.test_name, r.documentation, test_source_normalized(r.source)>>
DifferingComponents(t, u) == {k \in 1..3 : t[k] # u[k]}

\* C8 as stated: records whose triples differ in at least one component have
\* different digests, and records with the same triple have the same digest.
C8_DistinctTriplesDistinctDigests ==
    pc = "chunks" =>
        \A i, j \in 1..Len(ret) :
            (ret[i].success /\ ret[j].success) =>
                (TripleOf(ret[i]) = TripleOf(ret[j])) = (ret[i].checksum = ret[j].checksum)

\* C8 as amended: records whose triples differ in exactly one component have
\* different digests, and records with the same triple have the same digest.
C8_OneChangedComponentChangesDigest ==
    pc = "chunks" =>
        \A i, j \in 1..Len(ret) :
            (ret[i].success /\ ret[j].success) =>
                /\ TripleOf(ret[i]) = TripleOf(ret[j])
                      => ret[i].checksum = ret[j].checksum
                /\ Cardinality(DifferingComponents(TripleOf(ret[i]), TripleOf(ret[j]))) = 1
                      => ret[i].checksum # ret[j].checksum

\* two records read in one call that differ in the documentation alone
C8_Witness ==
    /\ pc = "chunks"
    /\ \E i, j \in 1..Len(ret) :
          /\ ret[i].success /\ ret[j].success
          /\ DifferingComponents(TripleOf(ret[i]), TripleOf(ret[j])) = {2}
          /\ ret[i].checksum # ret[j].checksum

\* the statistics of a standalone document
DocStatistics(root) == Head(findall(root, "statistics"))
TotalStat(root) == Head(Head(findall(DocStatistics(root), "total")).children)
TagStats(root) == Head(findall(DocStatistics(root), "tag")).children
SuiteStat(root) == Head(Head(findall(DocStatistics(root), "suite")).children)
TripleOfStat(stat) == <<stat.attrib.pass, stat.attrib.fail, stat.attrib.skip>>
One == <<"1">>
Zero == <<"0">>
UnitTriples == {<<One, Zero, Zero>>, <<Zero, One, Zero>>, <<Zero, Zero, One>>}

\* the per-tag triples and the suite-level triple are the aggregate triple, with
\* one per-tag entry for each tag of the test
StatisticsAgree(root) ==
    /\ Len(TagStats(root)) = Len(findall(DocTest(root), "tag"))
    /\ \A k \in 1..Len(TagStats(root)) :
          /\ TripleOfStat(TagStats(root)[k]) = TripleOfStat(TotalStat(root))
          /\ TagStats(root)[k].text = findall(DocTest(root), "tag")[k].text
    /\ TripleOfStat(SuiteStat(root)) = TripleOfStat(TotalStat(root))

\* C9 as stated: in every written document, whatever the status of the test,
\* exactly one of the aggregate pass, fail and skip counts is 1 and the other two
\* are 0, and the per-tag and suite-level triples are that triple.
C9_ExactlyOneCountIsOne ==
    \A f \in storage :
        /\ TripleOfStat(TotalStat(f[2])) \in UnitTriples
        /\ StatisticsAgree(f[2])

\* C9 as amended: the aggregate triple has a 1 for the status PASS, FAIL or SKIP
\* of the test and 0 elsewhere, so it is all 0 for any other status; the per-tag
\* and suite-level triples are that triple.
C9_CountFollowsStatus ==
    \A f \in storage :
        LET status == TestStatus(DocTest(f[2]))
        IN  /\ TripleOfStat(TotalStat(f[2])) =
                  <<IF status = PASS THEN One ELSE Zero,
                    IF status = FAIL THEN One ELSE Zero,
                    IF status = SKIP THEN One ELSE Zero>>
            /\ StatisticsAgree(f[2])

\* documents are written for a tagged test whose status is none of the three
\* and for a tagged test that passed
C9_Witness ==
    /\ \E f \in storage :
          /\ TestStatus(DocTest(f[2])) = NOTRUN
          /\ Len(TagStats(f[2])) = 1
          /\ TripleOfStat(TotalStat(f[2])) = <<Zero, Zero, Zero>>
    /\ \E f \in storage :
          /\ TestStatus(DocTest(f[2])) = PASS
          /\ Len(TagStats(f[2])) = 2

\* the search order the claim C10 states: the messages under the SETUP nodes
\* that are direct children of the suite, then of each ancestor from the nearest
\* outward, then the messages under the test
DirectSetupMsgs(suite) == MsgsUnder(findall_kw(suite, SETUP))
RECURSIVE AncestorCapture(_, _)
AncestorCapture(root, ids) ==
    IF ids = <<>> THEN None
    ELSE LET found == FindSuite(root, Head(ids))
             m == IF found = <<>> THEN None
                  ELSE FirstCapture(DirectSetupMsgs(Head(found)))
         IN  IF m # None THEN m ELSE AncestorCapture(root, Tail(ids))
StatedPrefix(test, suite, root) ==
    IF filename_prefix_pattern = None THEN None
    ELSE LET own == FirstCapture(DirectSetupMsgs(suite))
             up == AncestorCapture(root, parent_ids(Get(suite, "id", <<>>)))
         IN  IF own # None THEN own
             ELSE IF up # None THEN up
             ELSE FirstCapture(findall_descendants(test, "msg"))

\* C10: the prefix of a test is the uppercased first capture found in the
\* suite's own setup, then in the setups of its ancestors from the nearest
\* outward, then in the test's own messages; sibling tests, sibling suites and
\* descendant suites never decide it; it is absent without a pattern.
C10_PrefixSearchOrder ==
    pc = "render" => prefix = StatedPrefix(CurTest, CurSuite, report)

\* a record of a document that could not be read: the path, success = false
\* and an error message, nothing else
FaultRecord(r) ==
    /\ DOMAIN r = {"xml_file", "success", "error"}
    /\ ~r.success
    /\ r.error # <<>>

\* a document with a fault: not parseable, without a suite element, or without
\* a test element directly inside its first suite
FaultyDocument(content) ==
    \/ content \in {NotWellFormed, IsADirectory, NoSuchFile}
    \/ findall_descendants(content, "suite") = <<>>
    \/ findall(Head(findall_descendants(content, "suite")), "test") = <<>>

RecordFits(r, content) == IF FaultyDocument(content) THEN FaultRecord(r) ELSE r.success

C12_OneAfterAnother ==
    LET n == Len(rendered)
    IN  /\ \A r \in 1..n :
              /\ FilenameIndex(rendered[r]) = r
              /\ \E f \in storage : f[1] = rendered[r]
        /\ {FilenameIndex(f[1]) : f \in storage} =
              1..(IF pc = "render" THEN n + 1 ELSE n)
        /\ pc \notin {"idle", "write", "render"} => n = Len(TestCases(report))

\* C13: a document written by split_to_chunks is read back, under the same
\* pattern, with the 'interface' that is the prefix split_to_chunks put into its
\* file name, and with none exactly when the file name has no prefix; so too
\* when the prefix came from the setup of an ancestor suite.
C13_PrefixRoundTrip ==
    (pc = "chunk" /\ ret.success /\ \E f \in storage : f[1] = ret.xml_file) =>
        LET i == FilenameIndex(ret.xml_file)
            suite == TestCases(report)[i][1]
            test == TestCases(report)[i][2]
            placed == _extract_filename_prefix(test, suite, report)
        IN  /\ ret.xml_file = xml_filename(i, placed, Get(test, "name", None),
                                           Get(test, "id", None))
            /\ ret.interface = placed

=============================================================================
